---- MODULE Spec2Model ----
(***************************************************************************)
(* Model of json_scraper.py: the CT election scraper.                      *)
(*                                                                         *)
(*   fetch_lookup_election  -> parse_results / parse_turnout               *)
(*                          -> to_es_results / to_es_turnout               *)
(*                          -> write_df x 4                                *)
(*                                                                         *)
(* Representation.                                                         *)
(*   - A JSON object that the code only looks up (dict.get) is a TLA+      *)
(*     function whose DOMAIN is the set of keys present.                   *)
(*   - A JSON object that the code iterates (dict.items()) is a sequence   *)
(*     of <<key, value>> pairs with distinct keys, in document order.      *)
(*   - Display names and percentages are TLA+ strings.  Strings the code   *)
(*     edits character by character (vote counts, electors, votes cast,    *)
(*     precincts reported) are sequences of one-character strings.         *)
(*   - A numeric cell is [nan |-> FALSE, n |-> k] or NaN.                  *)
(*   - A DataFrame is [columns |-> <<names>>, rows |-> <<records>>].       *)
(***************************************************************************)
EXTENDS Integers, Sequences, FiniteSets, TLC

VARIABLES
    pc,          \* position of main(): a step of main_order, or "raised"
    fpc,         \* position inside fetch_lookup_election
    log,         \* the HTTP requests made so far, each with its response
    ver,         \* local `ver`
    lookup,      \* local `lookup`
    election,    \* local `election`
    origin,      \* URL each of lookup / election was read from
    errors,      \* exceptions that left main(), in order
    built,       \* names of the DataFrame locals assigned so far
    df_res, df_turn, df_res_es, df_turn_es,
    sheet,       \* destination spreadsheet: tab name -> state and content
    wpc,         \* position inside write_df
    pubLog       \* tab operations performed on the destination, in order

vars == <<pc, fpc, log, ver, lookup, election, origin, errors, built,
          df_res, df_turn, df_res_es, df_turn_es, sheet, wpc, pubLog>>

fetchVars == <<fpc, log, ver, lookup, election, origin>>
frameVars == <<built, df_res, df_turn, df_res_es, df_turn_es>>
sheetVars == <<sheet, wpc, pubLog>>

----------------------------------------------------------------------------
(* Bounds of the explored inputs *)

MaxEntries == 2

MaxOfficeList == 2

MaxTurnoutTowns == 2

----------------------------------------------------------------------------
(* CONFIG *)

ELECTION_ID == 97

SHEET_NAME == "municipal-elections-2025-angela"

BASE == "https://ctemsmedia.tgstg.net/ng-app/data/election"

TABS ==
    [Results_EN |-> "Results_EN", Turnout_EN |-> "Turnout_EN",
     Results_ES |-> "Results_ES", Turnout_ES |-> "Turnout_ES"]

TabNames == {TABS[k] : k \in DOMAIN TABS}

PARTY_ES ==
    [p \in {"Democratic Party", "Republican Party", "Working Families Party",
            "Green Party", "Independent Party", "Write In",
            "Petitioning Candidate", "Conservative Party"} |->
        CASE p = "Democratic Party"       -> "Partido Demócrata"
          [] p = "Republican Party"       -> "Partido Republicano"
          [] p = "Working Families Party" -> "Partido de Familias Trabajadoras"
          [] p = "Green Party"            -> "Partido Verde"
          [] p = "Independent Party"      -> "Partido Independiente"
          [] p = "Write In"               -> "Candidato por escrito"
          [] p = "Petitioning Candidate"  -> "Candidato por petición"
          [] p = "Conservative Party"     -> "Partido Conservador"]

----------------------------------------------------------------------------
(* Python values and operations *)

\* dict.get(k, default)
Get(d, k, default) == IF k \in DOMAIN d THEN d[k] ELSE default

\* {} : the empty dict
EmptyDict == <<>>

PyNone == [t |-> "none", s |-> ""]

PyStr(s) == [t |-> "str", s |-> s]

\* f"{v}" for a value that is a str or None
Format(v) == IF v.t = "none" THEN "None" ELSE v.s

DigitChars == <<"0", "1", "2", "3", "4", "5", "6", "7", "8", "9">>

Digits == {DigitChars[i] : i \in 1..10}

RECURSIVE IntStr(_)
\* str(n) for a natural number n
IntStr(n) ==
    IF n < 10 THEN DigitChars[n + 1]
    ELSE IntStr(n \div 10) \o DigitChars[(n % 10) + 1]

DigitVal(c) == CHOOSE i \in 0..9 : DigitChars[i + 1] = c

RECURSIVE DecVal(_)
\* value of a non-empty sequence of decimal digits
DecVal(s) ==
    IF Len(s) = 1 THEN DigitVal(s[1])
    ELSE 10 * DecVal(SubSeq(s, 1, Len(s) - 1)) + DigitVal(s[Len(s)])

RECURSIVE Replace(_, _, _)
\* str.replace(old, new): every non-overlapping occurrence, left to right
Replace(s, old, new) ==
    IF Len(s) < Len(old) THEN s
    ELSE IF SubSeq(s, 1, Len(old)) = old
         THEN new \o Replace(SubSeq(s, Len(old) + 1, Len(s)), old, new)
         ELSE <<s[1]>> \o Replace(Tail(s), old, new)

NaN == [nan |-> TRUE, n |-> 0]

Num(k) == [nan |-> FALSE, n |-> k]

\* pd.to_numeric(x, errors="coerce") on strings over digits, "," and
\* characters that occur in no numeric literal ("n", "/", "a" alone never
\* spell nan or inf)
to_numeric(s) ==
    IF Len(s) > 0 /\ \A i \in 1..Len(s) : s[i] \in Digits
    THEN Num(DecVal(s))
    ELSE NaN

RECURSIVE ReplaceFirst(_, _, _)
\* str.replace(old, new, 1)
ReplaceFirst(s, old, new) ==
    IF Len(s) < Len(old) THEN s
    ELSE IF SubSeq(s, 1, Len(old)) = old
         THEN new \o SubSeq(s, Len(old) + 1, Len(s))
         ELSE <<s[1]>> \o ReplaceFirst(Tail(s), old, new)

\* clean_numeric removing one thousands separator only
clean_numeric_first_comma(s) == to_numeric(ReplaceFirst(s, <<",">>, <<>>))

\* pd.to_numeric(col.astype(str).str.replace(",", ""), errors="coerce")
clean_numeric(s) == to_numeric(Replace(s, <<",">>, <<>>))

RECURSIVE Concat(_)
\* rows.append in nested loops: the per-iteration row lists, in order
Concat(ss) == IF Len(ss) = 0 THEN <<>> ELSE Head(ss) \o Concat(Tail(ss))

\* out[k] = v
Put(d, k, v) == [x \in (DOMAIN d) \cup {k} |-> IF x = k THEN v ELSE d[x]]

\* DataFrame.empty
IsEmpty(df) == Len(df.rows) = 0 \/ Len(df.columns) = 0

----------------------------------------------------------------------------
(* HELPERS: normalizer *)

RECURSIVE build_office_map_from(_, _)
\* the loop of build_office_map, with `out` as accumulated so far; an item
\* is [isdict |-> BOOLEAN, items |-> <<<<key, record>>, ...>>]
build_office_map_from(out, lst) ==
    IF Len(lst) = 0 THEN out
    ELSE LET item == Head(lst)
             RECURSIVE PutAll(_, _)
             PutAll(o, kvs) ==
                 IF Len(kvs) = 0 THEN o
                 ELSE PutAll(Put(o, Head(kvs)[1], Get(Head(kvs)[2], "NM", "")),
                             Tail(kvs))
         IN  IF ~item.isdict
             THEN build_office_map_from(out, Tail(lst))
             ELSE build_office_map_from(PutAll(out, item.items), Tail(lst))

build_office_map(lst) == build_office_map_from(EmptyDict, lst)

RESULT_COLUMNS ==
    <<"town_name", "office_name", "candidate_name", "party", "votes",
      "percent", "town_id", "office_id", "candidate_id">>

\* the dict appended for one (tid, oid, cid, vals)
result_row(towns, offices, candidates, parties, tid, oid, cid, vals) ==
    LET cmeta == Get(candidates, cid, EmptyDict)
        pname == Get(Get(parties, Get(cmeta, "P", ""), EmptyDict), "NM", "")
    IN  [town_name      |-> Get(towns, tid, ""),
         office_name    |-> Get(offices, oid, ""),
         candidate_name |-> Get(cmeta, "NM", ""),
         party          |-> pname,
         votes          |-> Get(vals, "V", <<>>),
         percent        |-> Get(vals, "TO", ""),
         town_id        |-> tid,
         office_id      |-> oid,
         candidate_id   |-> cid]

\* the rows list built by the four nested loops of parse_results
result_rows(lookup_d, election_d) ==
    LET towns      == Get(lookup_d, "townIds", EmptyDict)
        parties    == Get(lookup_d, "partyIds", EmptyDict)
        candidates == Get(lookup_d, "candidateIds", EmptyDict)
        offices    == build_office_map(Get(lookup_d, "officeList", <<>>))
        town_votes == Get(election_d, "townVotes", <<>>)
        OfEntry(tid, oid, entry) ==
            [c \in 1..Len(entry) |->
                result_row(towns, offices, candidates, parties,
                           tid, oid, entry[c][1], entry[c][2])]
        OfCands(tid, oid, cands) ==
            Concat([e \in 1..Len(cands) |-> OfEntry(tid, oid, cands[e])])
        OfTown(tid, contests) ==
            Concat([o \in 1..Len(contests) |->
                        OfCands(tid, contests[o][1], contests[o][2])])
    IN  Concat([t \in 1..Len(town_votes) |->
                    OfTown(town_votes[t][1], town_votes[t][2])])

\* parse_results followed by the removal of the rows with no vote count
parse_results_dropna(lookup_d, election_d) ==
    LET rows == result_rows(lookup_d, election_d)
        kept == SelectSeq([i \in 1..Len(rows) |->
                              [rows[i] EXCEPT !.votes = clean_numeric(@)]],
                          LAMBDA r : ~r.votes.nan)
    IN  IF Len(rows) = 0
        THEN [columns |-> <<>>, rows |-> <<>>]
        ELSE [columns |-> RESULT_COLUMNS, rows |-> kept]

parse_results(lookup_d, election_d) ==
    LET rows == result_rows(lookup_d, election_d)
    IN  IF Len(rows) = 0
        THEN [columns |-> <<>>, rows |-> <<>>]
        ELSE [columns |-> RESULT_COLUMNS,
              rows    |-> [i \in 1..Len(rows) |->
                              [rows[i] EXCEPT !.votes = clean_numeric(@)]]]

TURNOUT_COLUMNS ==
    <<"town_id", "town_name", "precincts_reported", "electors",
      "votes_cast", "turnout_percent">>

\* turnout_row reading the precincts from the turnout record
turnout_row_from_record(town_status, tid, d) ==
    [town_id            |-> tid,
     town_name          |-> Get(d, "NM", ""),
     precincts_reported |-> Get(d, "PR", <<>>),
     electors           |-> Get(d, "EV", <<>>),
     votes_cast         |-> Get(d, "VV", <<>>),
     turnout_percent    |-> Get(d, "TO", "")]

\* the dict appended for one (tid, d)
turnout_row(town_status, tid, d) ==
    LET status == Get(town_status, tid, EmptyDict)
        precincts_reported == Get(status, "PR", <<>>)
    IN  [town_id            |-> tid,
         town_name          |-> Get(d, "NM", ""),
         precincts_reported |-> precincts_reported,
         electors           |-> Get(d, "EV", <<>>),
         votes_cast         |-> Get(d, "VV", <<>>),
         turnout_percent    |-> Get(d, "TO", "")]

parse_turnout(election_d) ==
    LET vt          == Get(election_d, "voterTurnout", <<>>)
        town_status == Get(election_d, "townStatus", EmptyDict)
        rows == [i \in 1..Len(vt) |-> turnout_row(town_status, vt[i][1], vt[i][2])]
    IN  IF Len(rows) = 0
        THEN [columns |-> <<>>, rows |-> <<>>]
        ELSE [columns |-> TURNOUT_COLUMNS,
              rows    |-> [i \in 1..Len(rows) |->
                              [rows[i] EXCEPT
                                  !.electors   = clean_numeric(@),
                                  !.votes_cast = clean_numeric(@)]]]

----------------------------------------------------------------------------
(* HELPERS: localizer *)

ES_RESULT_COLUMNS ==
    <<"Ciudad", "Cargo", "Candidato", "Partido", "Votos", "Porcentaje">>

ES_TURNOUT_COLUMNS ==
    <<"Ciudad", "Precintos reportados", "Habilitados", "Votantes",
      "% Participación">>

\* PARTY_ES.get(x, "")
translate_party_strict(x) == Get(PARTY_ES, x, "")

\* lambda x: PARTY_ES.get(x, x)
translate_party(x) == Get(PARTY_ES, x, x)

\* the rows of df in descending index order
es_index_reversed(df) == [i \in 1..Len(df.rows) |-> Len(df.rows) - i + 1]

\* which rows of df, in which order, the constructed frame holds
es_index(df) == [i \in 1..Len(df.rows) |-> i]

to_es_results(df) ==
    IF IsEmpty(df) THEN [columns |-> ES_RESULT_COLUMNS, rows |-> <<>>]
    ELSE [columns |-> ES_RESULT_COLUMNS,
          rows |-> [j \in 1..Len(es_index(df)) |->
                      LET r == df.rows[es_index(df)[j]]
                      IN  [Ciudad     |-> r.town_name,
                           Cargo      |-> r.office_name,
                           Candidato  |-> r.candidate_name,
                           Partido    |-> translate_party(r.party),
                           Votos      |-> r.votes,
                           Porcentaje |-> r.percent]]]

to_es_turnout(df) ==
    IF IsEmpty(df) THEN [columns |-> ES_TURNOUT_COLUMNS, rows |-> <<>>]
    ELSE [columns |-> ES_TURNOUT_COLUMNS,
          rows |-> [j \in 1..Len(es_index(df)) |->
                      LET r == df.rows[es_index(df)[j]]
                      IN  ("Ciudad" :> r.town_name)
                          @@ ("Precintos reportados" :>
                                Replace(r.precincts_reported,
                                        <<" ", "o", "f", " ">>,
                                        <<" ", "d", "e", " ">>))
                          @@ ("Habilitados" :> r.electors)
                          @@ ("Votantes" :> r.votes_cast)
                          @@ ("% Participación" :> r.turnout_percent)]]

----------------------------------------------------------------------------
(* HELPERS: fetcher *)

NoExc == [type |-> "", msg |-> ""]

\* requests.get: a response is either a transport failure (net) or a
\* status code with a body; a body is malformed text, a JSON object
\* (isdict) or another JSON value
get_json(resp) ==
    IF resp.net
    THEN [exc |-> [type |-> "ConnectionError", msg |-> "connection failed"],
          val |-> resp.body]
    ELSE IF 400 <= resp.status /\ resp.status < 600
    THEN [exc |-> [type |-> "HTTPError",
                   msg  |-> IntStr(resp.status) \o
                            (IF resp.status < 500 THEN " Client Error"
                                                  ELSE " Server Error")],
          val |-> resp.body]
    ELSE IF resp.body.json = "malformed"
    THEN [exc |-> [type |-> "JSONDecodeError", msg |-> "Expecting value"],
          val |-> resp.body]
    ELSE [exc |-> NoExc, val |-> resp.body]

IsDict(v) == v.json = "object"

VersionedNames == {"Lookupdata", "Electiondata"}

\* f"{BASE}/{eid}/Version.json", f"{BASE}/{eid}/Lookup.json",
\* f"{BASE}/{eid}/{ver}/Lookupdata.json", ...
Url(eid, v, name) ==
    BASE \o "/" \o IntStr(eid) \o "/"
         \o (IF name \in VersionedNames THEN Format(v) \o "/" ELSE "")
         \o name \o ".json"

\* fetch_next without the inner handler: an HTTP error is fatal at once
fetch_next_no_fallback(name, exc) ==
    CASE name = "Version" -> IF exc = "" THEN "Lookup" ELSE "raise"
      [] name = "Lookup" -> IF exc = "" THEN "Election" ELSE "raise"
      [] name = "Election" -> IF exc = "" THEN "return" ELSE "raise"
      [] name = "Lookupdata" -> IF exc = "" THEN "Electiondata" ELSE "raise"
      [] name = "Electiondata" -> IF exc = "" THEN "return" ELSE "raise"

\* fetch_next with `except Exception` as the inner handler
fetch_next_catch_all(name, exc) ==
    CASE name = "Version" -> IF exc = "" THEN "Lookup" ELSE "raise"
      [] name = "Lookup" -> IF exc = "" THEN "Election" ELSE "Lookupdata"
      [] name = "Election" -> IF exc = "" THEN "return" ELSE "Lookupdata"
      [] name = "Lookupdata" -> IF exc = "" THEN "Electiondata" ELSE "raise"
      [] name = "Electiondata" -> IF exc = "" THEN "return" ELSE "raise"

\* fetch_next with a handler per request: a failed Election is retried as
\* Electiondata and the Lookup already read is kept
fetch_next_keep_lookup(name, exc) ==
    CASE name = "Version" -> IF exc = "" THEN "Lookup" ELSE "raise"
      [] name = "Lookup" ->
            IF exc = "" THEN "Election"
            ELSE IF exc = "HTTPError" THEN "Lookupdata" ELSE "raise"
      [] name = "Election" ->
            IF exc = "" THEN "return"
            ELSE IF exc = "HTTPError" THEN "Electiondata" ELSE "raise"
      [] name = "Lookupdata" -> IF exc = "" THEN "Electiondata" ELSE "raise"
      [] name = "Electiondata" -> IF exc = "" THEN "return" ELSE "raise"

\* control flow of fetch_lookup_election: where it goes after the request
\* for `name` ended with an exception of type `exc` ("" for none)
fetch_next(name, exc) ==
    CASE name = "Version" ->
            IF exc = "" THEN "Lookup" ELSE "raise"
      [] name = "Lookup" ->
            IF exc = "" THEN "Election"
            ELSE IF exc = "HTTPError" THEN "Lookupdata" ELSE "raise"
      [] name = "Election" ->
            IF exc = "" THEN "return"
            ELSE IF exc = "HTTPError" THEN "Lookupdata" ELSE "raise"
      [] name = "Lookupdata" ->
            IF exc = "" THEN "Electiondata" ELSE "raise"
      [] name = "Electiondata" ->
            IF exc = "" THEN "return" ELSE "raise"

\* raise RuntimeError(f"Could not fetch election {eid}: {e}")
wrap_error(eid, e) ==
    [type  |-> "RuntimeError",
     msg   |-> "Could not fetch election " \o IntStr(eid) \o ": " \o e.msg,
     cause |-> e]

----------------------------------------------------------------------------
(* MAIN: order of the statements of main() *)

\* main() writing each English frame as soon as it can
main_order_eager ==
    <<"fetch_lookup_election", "parse_results", "parse_turnout",
      "credentials", "open", "write_Results_EN", "write_Turnout_EN",
      "to_es_results", "to_es_turnout", "meta",
      "write_Results_ES", "write_Turnout_ES", "print">>

main_order ==
    <<"fetch_lookup_election", "parse_results", "parse_turnout",
      "to_es_results", "to_es_turnout", "meta", "credentials", "open",
      "write_Results_EN", "write_Turnout_EN", "write_Results_ES",
      "write_Turnout_ES", "print">>

StepAfter(p) ==
    LET i == CHOOSE k \in 1..Len(main_order) : main_order[k] = p
    IN  IF i = Len(main_order) THEN "done" ELSE main_order[i + 1]

\* write_df(sh, TABS[...], df): the tab and the frame of each write step
WriteSteps ==
    [write_Results_EN |-> [tab |-> TABS.Results_EN, frame |-> "df_res"],
     write_Turnout_EN |-> [tab |-> TABS.Turnout_EN, frame |-> "df_turn"],
     write_Results_ES |-> [tab |-> TABS.Results_ES, frame |-> "df_res_es"],
     write_Turnout_ES |-> [tab |-> TABS.Turnout_ES, frame |-> "df_turn_es"]]

FrameNames == {"df_res", "df_turn", "df_res_es", "df_turn_es"}

----------------------------------------------------------------------------
(* Input documents *)

Obj(d) == [json |-> "object", d |-> d]

Malformed == [json |-> "malformed", d |-> EmptyDict]

JsonArray == [json |-> "array", d |-> EmptyDict]

SeqsUpTo(S, n) == UNION {[1..k -> S] : k \in 0..n}

\* officeList items: single-entry mappings, and one item that is no mapping
OfficeItems ==
    {[isdict |-> TRUE,  items |-> <<<<"10", [NM |-> "Mayor"]>>>>],
     [isdict |-> TRUE,  items |-> <<<<"10", [NM |-> "First Selectman"]>>>>],
     [isdict |-> TRUE,  items |-> <<<<"11", EmptyDict>>>>],
     [isdict |-> FALSE, items |-> <<>>]}

TownIdsOptions == {EmptyDict, "5" :> "Hartford"}

CandidateIdsOptions ==
    {c @@ ("101" :> [NM |-> "John Roe", P |-> "2"]) :
        c \in {EmptyDict,
               "100" :> [NM |-> "Jane Doe", P |-> "1"],
               "100" :> [NM |-> "Jane Doe"],
               "100" :> [P |-> "2"]}}

\* partyIds: party "1" absent, named or nameless; party "2" named; and,
\* in half of the documents, an entry under the empty identifier
PartyIdsOptions ==
    {q @@ b @@ ("2" :> [NM |-> "Unaffiliated"]) :
        q \in {EmptyDict,
               "1" :> [NM |-> "Democratic Party"],
               "1" :> EmptyDict},
        b \in {EmptyDict, "" :> [NM |-> "Blank"]}}

LookupDicts ==
    {[townIds |-> t, partyIds |-> q, candidateIds |-> c, officeList |-> o] :
        t \in TownIdsOptions, q \in PartyIdsOptions,
        c \in CandidateIdsOptions, o \in SeqsUpTo(OfficeItems, MaxOfficeList)}

\* the lookup document of the example
ExampleLookup ==
    [townIds      |-> "5" :> "Hartford",
     officeList   |-> <<[isdict |-> TRUE,
                         items  |-> <<<<"10", [NM |-> "Mayor"]>>>>]>>,
     candidateIds |-> "100" :> [NM |-> "Jane Doe", P |-> "1"],
     partyIds     |-> "1" :> [NM |-> "Democratic Party"]]

\* vote-tally records: comma-grouped counts, a plain count, an unparseable
\* count and a record with no count at all
Tally1 == [V |-> <<"1", ",", "2", "3", "4">>, TO |-> "55%"]

Tally2 == [V |-> <<"5", "6">>, TO |-> "45%"]

Tally3 == EmptyDict

Tally4 == [V |-> <<"n", "/", "a">>, TO |-> "0%"]

Tally5 == [V |-> <<"1", ",", "2", "3", "4", ",", "5", "6", "7">>, TO |-> "100%"]

\* candidate-tally entries: single-entry mappings candidate id -> tally
Entries ==
    {<<<<"100", Tally1>>>>, <<<<"101", Tally2>>>>, <<<<"100", Tally3>>>>,
     <<<<"101", Tally4>>>>, <<<<"100", Tally5>>>>}

CandSeqs == SeqsUpTo(Entries, MaxEntries)

ContestsOf5 ==
    {<<>>}
    \cup {<<<<o, cs>>>> : o \in {"10", "11"}, cs \in CandSeqs}
    \cup {<<<<"10", cs>>, <<"11", <<<<<<"101", Tally2>>>>>>>>>> : cs \in CandSeqs}

ContestsOf6 == {<<>>, <<<<"10", <<<<<<"101", Tally2>>>>>>>>>>}

TownVotesOptions ==
    {<<>>}
    \cup {<<<<"5", c>>>> : c \in ContestsOf5}
    \cup {<<<<"5", c>>, <<"6", d>>>> : c \in ContestsOf5, d \in ContestsOf6}
    \cup {<<<<"6", d>>, <<"5", c>>>> : c \in ContestsOf5, d \in ContestsOf6}

TurnoutTowns == {"5", "6", "7"}

TurnoutRecords ==
    {[NM |-> "Hartford", EV |-> <<"1", "0", ",", "0", "0", "0">>,
      VV |-> <<"4", ",", "3", "2", "1">>, TO |-> "43.21%"],
     [NM |-> "Avon", VV |-> <<"-">>, TO |-> ""],
     EmptyDict}

\* voterTurnout: up to MaxTurnoutTowns distinct towns, in document order
VoterTurnoutOptions ==
    {vt \in SeqsUpTo(TurnoutTowns \X TurnoutRecords, MaxTurnoutTowns) :
        \A i, j \in 1..Len(vt) : i # j => vt[i][1] # vt[j][1]}

StatusRecords ==
    {[PR |-> <<"3", " ", "o", "f", " ", "5">>],
     [PR |-> <<"r", "e", "p", "o", "r", "t", "e", "d">>],
     EmptyDict}

TownStatusOptions ==
    {a @@ b : a \in {EmptyDict} \cup {"5" :> r : r \in StatusRecords},
              b \in {EmptyDict} \cup {"6" :> r : r \in StatusRecords}}

ExampleTownVotes == <<<<"5", <<<<"10", <<<<<<"100", Tally1>>>>>>>>>>>>>>

ExampleTurnout ==
    [voterTurnout |-> <<<<"5", [NM |-> "Hartford",
                               EV |-> <<"1", "0", ",", "0", "0", "0">>,
                               VV |-> <<"4", ",", "3", "2", "1">>,
                               TO |-> "43.21%"]>>>>,
     townStatus   |-> "5" :> [PR |-> <<"3", " ", "o", "f", " ", "5">>]]

ElectionDict(tv, vt, ts) ==
    [townVotes |-> tv, voterTurnout |-> vt, townStatus |-> ts]

ExampleElection ==
    ElectionDict(ExampleTownVotes, ExampleTurnout.voterTurnout,
                 ExampleTurnout.townStatus)

\* documents the server may hold, for the runs of main()
LookupBodies ==
    {Obj(ExampleLookup),
     Obj([townIds |-> EmptyDict, partyIds |-> "2" :> [NM |-> "Green Party"],
          candidateIds |-> "100" :> [NM |-> "Jane Doe", P |-> "2"]]),
     JsonArray}

ElectionBodies ==
    {Obj(ExampleElection),
     Obj(ElectionDict(<<>>, <<>>, EmptyDict)),
     JsonArray}

VersionBodies ==
    {Obj("Version" :> PyStr("12")), Obj(EmptyDict), JsonArray}

BodiesOf(name) ==
    CASE name = "Version" -> VersionBodies
      [] name \in {"Lookup", "Lookupdata"} -> LookupBodies
      [] name \in {"Election", "Electiondata"} -> ElectionBodies

Response(st, b) == [net |-> FALSE, status |-> st, body |-> b]

\* what a request for `name` may meet: no connection; 200 with each body or
\* with malformed text; 304 with no body; 404 and 503 with an error page;
\* 404 with a JSON body
Responses(name) ==
    {[net |-> TRUE, status |-> 0, body |-> Malformed]}
    \cup {Response(200, b) : b \in BodiesOf(name) \cup {Malformed}}
    \cup {Response(304, Malformed), Response(404, Malformed),
          Response(503, Malformed)}
    \cup {Response(404, b) : b \in {Obj(EmptyDict)}}

Timestamps == {"2025-11-04T21:00:00+00:00"}

----------------------------------------------------------------------------
(* MAIN: state machine *)

NoFrame == [columns |-> <<>>, rows |-> <<>>]

NoDoc == [json |-> "none", d |-> EmptyDict]

Init ==
    /\ pc = "fetch_lookup_election"
    /\ fpc = "Version"
    /\ log = <<>>
    /\ ver = PyNone
    /\ lookup = NoDoc
    /\ election = NoDoc
    /\ origin = [lookup |-> "", election |-> ""]
    /\ errors = <<>>
    /\ built = {}
    /\ df_res = NoFrame
    /\ df_turn = NoFrame
    /\ df_res_es = NoFrame
    /\ df_turn_es = NoFrame
    /\ sheet = [t \in TabNames |-> [state |-> "unknown", content |-> NoFrame]]
    /\ wpc = "ensure_ws"
    /\ pubLog = <<>>

\* an exception leaves main()
Raise(e) ==
    /\ pc' = "raised"
    /\ errors' = Append(errors, e)

Proceed ==
    /\ pc' = StepAfter(pc)
    /\ UNCHANGED errors

\* x.get(...) on a JSON value that is no object
AttributeError ==
    [type |-> "AttributeError", msg |-> "object has no attribute 'get'"]

\* one get_json call of fetch_lookup_election (lines 54, 56, 57, 61, 62)
\* together with the control flow that follows it
Fetch(name) ==
    /\ pc = "fetch_lookup_election"
    /\ fpc = name
    /\ \E resp \in Responses(name) :
          LET url == Url(ELECTION_ID, ver, name)
              r   == get_json(resp)
              \* .get("Version") on a JSON value that is no object
              exc == IF r.exc = NoExc /\ name = "Version" /\ ~IsDict(r.val)
                     THEN AttributeError ELSE r.exc
              nxt == fetch_next(name, exc.type)
          IN  /\ log' = Append(log, [name |-> name, url |-> url, resp |-> resp])
              /\ ver' = IF name = "Version" /\ exc = NoExc
                        THEN Get(r.val.d, "Version", PyNone) ELSE ver
              /\ lookup' = IF name \in {"Lookup", "Lookupdata"} /\ exc = NoExc
                           THEN r.val ELSE lookup
              /\ election' = IF name \in {"Election", "Electiondata"} /\ exc = NoExc
                             THEN r.val ELSE election
              /\ origin' = IF exc # NoExc \/ name = "Version" THEN origin
                           ELSE IF name \in {"Lookup", "Lookupdata"}
                           THEN [origin EXCEPT !.lookup = url]
                           ELSE [origin EXCEPT !.election = url]
              /\ fpc' = nxt
              /\ IF nxt = "raise" THEN Raise(wrap_error(ELECTION_ID, exc))
                 ELSE IF nxt = "return" THEN Proceed
                 ELSE UNCHANGED <<pc, errors>>
    /\ UNCHANGED <<frameVars, sheetVars>>

\* df_res = parse_results(lookup, election)
ParseResults ==
    /\ pc = "parse_results"
    /\ IF IsDict(lookup) /\ IsDict(election)
       THEN /\ df_res' = parse_results(lookup.d, election.d)
            /\ built' = built \cup {"df_res"}
            /\ Proceed
       ELSE /\ Raise(AttributeError)
            /\ UNCHANGED <<df_res, built>>
    /\ UNCHANGED <<fetchVars, df_turn, df_res_es, df_turn_es, sheetVars>>

\* df_turn = parse_turnout(election)
ParseTurnout ==
    /\ pc = "parse_turnout"
    /\ IF IsDict(election)
       THEN /\ df_turn' = parse_turnout(election.d)
            /\ built' = built \cup {"df_turn"}
            /\ Proceed
       ELSE /\ Raise(AttributeError)
            /\ UNCHANGED <<df_turn, built>>
    /\ UNCHANGED <<fetchVars, df_res, df_res_es, df_turn_es, sheetVars>>

\* df_res_es = to_es_results(df_res)
ToEsResults ==
    /\ pc = "to_es_results"
    /\ df_res_es' = to_es_results(df_res)
    /\ built' = built \cup {"df_res_es"}
    /\ Proceed
    /\ UNCHANGED <<fetchVars, df_res, df_turn, df_turn_es, sheetVars>>

\* df_turn_es = to_es_turnout(df_turn)
ToEsTurnout ==
    /\ pc = "to_es_turnout"
    /\ df_turn_es' = to_es_turnout(df_turn)
    /\ built' = built \cup {"df_turn_es"}
    /\ Proceed
    /\ UNCHANGED <<fetchVars, df_res, df_turn, df_res_es, sheetVars>>

META_COLUMNS == <<"election_id", "version", "scraped_at">>

\* for k, v in meta.items(): df[k] = v
with_meta(df, meta) ==
    [columns |-> df.columns \o META_COLUMNS,
     rows    |-> [i \in 1..Len(df.rows) |-> df.rows[i] @@ meta]]

\* the meta dict and the loop that adds its columns to the four frames
AttachMeta ==
    /\ pc = "meta"
    /\ \E ts \in Timestamps :
          LET meta == [election_id |-> ELECTION_ID, version |-> ver,
                       scraped_at |-> ts]
          IN  /\ df_res' = with_meta(df_res, meta)
              /\ df_turn' = with_meta(df_turn, meta)
              /\ df_res_es' = with_meta(df_res_es, meta)
              /\ df_turn_es' = with_meta(df_turn_es, meta)
    /\ Proceed
    /\ UNCHANGED <<fetchVars, built, sheetVars>>

\* Credentials.from_service_account_file and gspread.authorize
Authorize ==
    /\ pc = "credentials"
    /\ \E ok \in BOOLEAN :
          IF ok THEN Proceed
          ELSE Raise([type |-> "FileNotFoundError", msg |-> "credentials.json"])
    /\ UNCHANGED <<fetchVars, frameVars, sheetVars>>

\* gc.open(SHEET_NAME), or gc.create(SHEET_NAME) when it is not found; the
\* tabs of an opened spreadsheet are whatever the destination holds
OpenSheet ==
    /\ pc = "open"
    /\ \E outcome \in {"opened", "created", "error"} :
          \E existing \in SUBSET TabNames :
             /\ outcome # "opened" => existing = {}
             /\ IF outcome = "error"
                THEN /\ Raise([type |-> "APIError", msg |-> SHEET_NAME])
                     /\ UNCHANGED sheet
                ELSE /\ Proceed
                     /\ sheet' = [t \in TabNames |->
                                    [state   |-> IF t \in existing THEN "stale"
                                                 ELSE "absent",
                                     content |-> NoFrame]]
    /\ UNCHANGED <<fetchVars, frameVars, wpc, pubLog>>

FrameOf(name) ==
    CASE name = "df_res"     -> df_res
      [] name = "df_turn"    -> df_turn
      [] name = "df_res_es"  -> df_res_es
      [] name = "df_turn_es" -> df_turn_es

\* ensure_ws(sh, name): clear the worksheet, or add it when it is not found
EnsureWs ==
    /\ pc \in DOMAIN WriteSteps
    /\ wpc = "ensure_ws"
    /\ LET tab == WriteSteps[pc].tab
       IN  \E ok \in BOOLEAN :
              IF ok
              THEN /\ sheet' = [sheet EXCEPT ![tab].state =
                                   IF @ = "absent" THEN "added" ELSE "cleared"]
                   /\ pubLog' = Append(pubLog,
                                  [op  |-> IF sheet[tab].state = "absent"
                                           THEN "add_worksheet" ELSE "clear",
                                   tab |-> tab])
                   /\ wpc' = "set_with_dataframe"
                   /\ UNCHANGED <<pc, errors>>
              ELSE /\ Raise([type |-> "APIError", msg |-> tab])
                   /\ UNCHANGED sheetVars
    /\ UNCHANGED <<fetchVars, frameVars>>

\* set_with_dataframe(ws, df), which ends write_df
SetWithDataframe ==
    /\ pc \in DOMAIN WriteSteps
    /\ wpc = "set_with_dataframe"
    /\ LET tab == WriteSteps[pc].tab
           df  == FrameOf(WriteSteps[pc].frame)
       IN  \E ok \in BOOLEAN :
              IF ok
              THEN /\ sheet' = [sheet EXCEPT ![tab] =
                                   [state |-> "written", content |-> df]]
                   /\ pubLog' = Append(pubLog,
                                  [op |-> "set_with_dataframe", tab |-> tab])
                   /\ wpc' = "ensure_ws"
                   /\ Proceed
              ELSE /\ Raise([type |-> "APIError", msg |-> tab])
                   /\ UNCHANGED sheetVars
    /\ UNCHANGED <<fetchVars, frameVars>>

\* the three print calls that end main()
PrintSummary ==
    /\ pc = "print"
    /\ Proceed
    /\ UNCHANGED <<fetchVars, frameVars, sheetVars>>

Next ==
    \/ Fetch("Version")
    \/ Fetch("Lookup")
    \/ Fetch("Election")
    \/ Fetch("Lookupdata")
    \/ Fetch("Electiondata")
    \/ ParseResults
    \/ ParseTurnout
    \/ ToEsResults
    \/ ToEsTurnout
    \/ AttachMeta
    \/ Authorize
    \/ OpenSheet
    \/ EnsureWs
    \/ SetWithDataframe
    \/ PrintSummary

Spec == Init /\ [][Next]_vars

----------------------------------------------------------------------------
(* The normalizer and localizer on bounded documents: main() from the      *)
(* point where fetch_lookup_election has returned on the unversioned path  *)

SampleTownVotes ==
    <<<<"5", <<<<"10", <<<<<<"100", Tally1>>>>, <<<<"101", Tally2>>>>>>>>,
              <<"11", <<<<<<"100", Tally4>>>>>>>>>>>>,
      <<"6", <<<<"12", <<<<<<"102", Tally3>>>>>>>>>>>>>>

NormalizerInputs ==
    {<<Obj(l), Obj(ElectionDict(SampleTownVotes, ExampleTurnout.voterTurnout,
                                ExampleTurnout.townStatus))>> :
        l \in LookupDicts}
    \cup {<<Obj(l), Obj(ElectionDict(tv, ExampleTurnout.voterTurnout,
                                     ExampleTurnout.townStatus))>> :
        l \in {ExampleLookup, EmptyDict}, tv \in TownVotesOptions}
    \cup {<<Obj(ExampleLookup), Obj(ElectionDict(SampleTownVotes, vt, ts))>> :
        vt \in VoterTurnoutOptions, ts \in TownStatusOptions}
    \cup {<<JsonArray, Obj(ExampleElection)>>,
          <<Obj(ExampleLookup), JsonArray>>,
          <<Obj(ExampleLookup), Obj(EmptyDict)>>}

InitNormalize ==
    /\ pc = "parse_results"
    /\ fpc = "return"
    /\ ver = PyStr("12")
    /\ \E in \in NormalizerInputs :
          /\ lookup = in[1]
          /\ election = in[2]
          /\ log = <<[name |-> "Version",
                      url  |-> Url(ELECTION_ID, PyNone, "Version"),
                      resp |-> Response(200, Obj("Version" :> PyStr("12")))],
                     [name |-> "Lookup",
                      url  |-> Url(ELECTION_ID, PyStr("12"), "Lookup"),
                      resp |-> Response(200, in[1])],
                     [name |-> "Election",
                      url  |-> Url(ELECTION_ID, PyStr("12"), "Election"),
                      resp |-> Response(200, in[2])]>>
    /\ origin = [lookup   |-> Url(ELECTION_ID, PyStr("12"), "Lookup"),
                 election |-> Url(ELECTION_ID, PyStr("12"), "Election")]
    /\ errors = <<>>
    /\ built = {}
    /\ df_res = NoFrame
    /\ df_turn = NoFrame
    /\ df_res_es = NoFrame
    /\ df_turn_es = NoFrame
    /\ sheet = [t \in TabNames |-> [state |-> "unknown", content |-> NoFrame]]
    /\ wpc = "ensure_ws"
    /\ pubLog = <<>>

NextNormalize ==
    \/ ParseResults
    \/ ParseTurnout
    \/ ToEsResults
    \/ ToEsTurnout

SpecNormalize == InitNormalize /\ [][NextNormalize]_vars

----------------------------------------------------------------------------
(* Properties of the fetcher and of main(), checked under Spec *)

\* a non-2xx answer that requests reports as an HTTP error
HttpFailure(resp) == ~resp.net /\ resp.status >= 400

\* an answer whose body decodes as JSON
ValidDoc(resp) ==
    ~resp.net /\ resp.status < 400 /\ resp.body.json # "malformed"

Unversioned(e) == e.name \in {"Lookup", "Election"}

\* the version value held by the version marker answered to request 1
MarkerVersion ==
    LET d == log[1].resp.body.d
    IN  IF "Version" \in DOMAIN d THEN d["Version"] ELSE PyNone

\* the version-qualified address of a document
ExpectedVersionedUrl(doc) ==
    "https://ctemsmedia.tgstg.net/ng-app/data/election/97/"
        \o (IF MarkerVersion = PyNone THEN "None" ELSE MarkerVersion.s)
        \o "/" \o doc \o ".json"

\* C1: after an HTTP-level failure of an unversioned Lookup or Election
\* request, the next request is for Lookupdata at the version-qualified
\* address built from the marker's version; when that returns a valid
\* document the next request is for Electiondata at the version-qualified
\* address; and when both return valid documents the fetch returns those
\* two documents and that version.
C1_FallbackToVersionedPath ==
    \A i \in 1..Len(log) :
        (Unversioned(log[i]) /\ HttpFailure(log[i].resp)) =>
            /\ Len(log) = i =>
                  /\ pc = "fetch_lookup_election"
                  /\ fpc = "Lookupdata"
                  /\ errors = <<>>
            /\ Len(log) > i =>
                  /\ log[i + 1].name = "Lookupdata"
                  /\ log[i + 1].url = ExpectedVersionedUrl("Lookupdata")
            /\ (Len(log) = i + 1 /\ ValidDoc(log[i + 1].resp)) =>
                  /\ pc = "fetch_lookup_election"
                  /\ fpc = "Electiondata"
                  /\ errors = <<>>
            /\ Len(log) > i + 1 =>
                  /\ log[i + 2].name = "Electiondata"
                  /\ log[i + 2].url = ExpectedVersionedUrl("Electiondata")
            /\ (/\ Len(log) > i + 1
                /\ ValidDoc(log[i + 1].resp)
                /\ ValidDoc(log[i + 2].resp)) =>
                  /\ fpc = "return"
                  /\ Len(log) = i + 2
                  /\ lookup = log[i + 1].resp.body
                  /\ election = log[i + 2].resp.body
                  /\ ver = MarkerVersion
                  /\ \A k \in 1..Len(errors) : errors[k].type # "RuntimeError"

\* the fetch returned through the fallback, with the marker's version "12"
C1_Witness ==
    /\ fpc = "return"
    /\ Len(log) = 4
    /\ log[2].name = "Lookup"
    /\ log[2].resp.status = 404
    /\ log[4].name = "Electiondata"
    /\ log[4].url =
          "https://ctemsmedia.tgstg.net/ng-app/data/election/97/12/Electiondata.json"
    /\ ver = PyStr("12")

\* the kind of the failure a request met, "" when it met none
FailureOf(e) ==
    IF e.resp.net THEN "ConnectionError"
    ELSE IF e.resp.status >= 400 THEN "HTTPError"
    ELSE IF e.resp.body.json = "malformed" THEN "JSONDecodeError"
    ELSE IF e.name = "Version" /\ e.resp.body.json # "object"
         THEN "AttributeError"
    ELSE ""

\* C2: every failure other than an HTTP-level failure of an unversioned
\* request ends the fetch: it is the last request made, main() has ended
\* with exactly one error, a RuntimeError whose message names election 97
\* and carries the text of the cause, and nothing was returned.
C2_OtherFailuresAreFatal ==
    \A i \in 1..Len(log) :
        (/\ FailureOf(log[i]) # ""
         /\ ~(Unversioned(log[i]) /\ HttpFailure(log[i].resp))) =>
            /\ i = Len(log)
            /\ pc = "raised"
            /\ fpc # "return"
            /\ built = {}
            /\ Len(errors) = 1
            /\ errors[1].type = "RuntimeError"
            /\ errors[1].cause.type = FailureOf(log[i])
            /\ errors[1].msg =
                  "Could not fetch election 97: " \o errors[1].cause.msg

\* malformed JSON on the unversioned Lookup path ended the run
C2_Witness ==
    /\ pc = "raised"
    /\ Len(log) = 2
    /\ log[2].name = "Lookup"
    /\ log[2].resp.status = 200
    /\ log[2].resp.body.json = "malformed"
    /\ Len(errors) = 1

Published ==
    \/ pubLog # <<>>
    \/ \E t \in TabNames : sheet[t].state \in {"cleared", "added", "written"}

\* C3: a tab is cleared, added or written only when the fetch has returned
\* and the four frames are built; a run that ended in the fetch or in the
\* normalizer has published nothing.
C3_PublishOnlyAfterAllBuilt ==
    /\ Published => (fpc = "return" /\ built = FrameNames)
    /\ (pc = "raised" /\ errors[1].type \in {"RuntimeError", "AttributeError"})
          => ~Published

\* a complete run: four tabs prepared and written
C3_Witness ==
    /\ pc = "done"
    /\ Len(pubLog) = 8
    /\ \A t \in TabNames : sheet[t].state = "written"

UnversionedUrl(doc) ==
    "https://ctemsmedia.tgstg.net/ng-app/data/election/97/" \o doc \o ".json"

\* C10: the two documents returned come from the same path scheme; when
\* Lookup succeeded and Election met an HTTP-level failure, the lookup
\* returned is the one answered to the Lookupdata request.
C10_SamePathScheme ==
    fpc = "return" =>
        /\ \/ /\ origin.lookup = UnversionedUrl("Lookup")
              /\ origin.election = UnversionedUrl("Election")
           \/ /\ origin.lookup = ExpectedVersionedUrl("Lookupdata")
              /\ origin.election = ExpectedVersionedUrl("Electiondata")
        /\ (Len(log) = 5 /\ ValidDoc(log[2].resp) /\ HttpFailure(log[3].resp)) =>
              /\ log[4].name = "Lookupdata"
              /\ lookup = log[4].resp.body
              /\ election = log[5].resp.body

\* Lookup succeeded, Election failed, and the lookup returned is not the
\* unversioned one
C10_Witness ==
    /\ fpc = "return"
    /\ Len(log) = 5
    /\ log[3].resp.status = 503
    /\ log[2].resp.body # log[4].resp.body
    /\ lookup = log[4].resp.body

----------------------------------------------------------------------------
(* Properties of the normalizer and the localizer, checked under           *)
(* SpecNormalize                                                           *)

\* the sections of the documents held by main()
TownVotes == Get(election.d, "townVotes", <<>>)

VoterTurnout == Get(election.d, "voterTurnout", <<>>)

TownStatus == Get(election.d, "townStatus", EmptyDict)

TownIds == Get(lookup.d, "townIds", EmptyDict)

PartyIds == Get(lookup.d, "partyIds", EmptyDict)

CandidateIds == Get(lookup.d, "candidateIds", EmptyDict)

OfficeList == Get(lookup.d, "officeList", <<>>)

RECURSIVE EntriesOfCands(_, _, _)
\* the candidate-tally entries of one office of one town, in order
EntriesOfCands(tid, oid, cands) ==
    IF cands = <<>> THEN <<>>
    ELSE <<[tid |-> tid, oid |-> oid, cid |-> Head(cands)[1][1],
            vals |-> Head(cands)[1][2]]>>
         \o EntriesOfCands(tid, oid, Tail(cands))

RECURSIVE EntriesOfTown(_, _)
EntriesOfTown(tid, contests) ==
    IF contests = <<>> THEN <<>>
    ELSE EntriesOfCands(tid, Head(contests)[1], Head(contests)[2])
         \o EntriesOfTown(tid, Tail(contests))

RECURSIVE EntriesOf(_)
\* every candidate-tally entry of townVotes, town by town, office by office
EntriesOf(tv) ==
    IF tv = <<>> THEN <<>>
    ELSE EntriesOfTown(Head(tv)[1], Head(tv)[2]) \o EntriesOf(Tail(tv))

TallyEntries == EntriesOf(TownVotes)

\* C4: the results table has one row per candidate-tally entry, in order,
\* each with the town, office and candidate identifiers of its entry, and
\* no row for a town whose contests are empty.
C4_OneRowPerTallyEntry ==
    "df_res" \in built =>
        /\ Len(df_res.rows) = Len(TallyEntries)
        /\ \A i \in 1..Len(TallyEntries) :
              /\ df_res.rows[i].town_id = TallyEntries[i].tid
              /\ df_res.rows[i].office_id = TallyEntries[i].oid
              /\ df_res.rows[i].candidate_id = TallyEntries[i].cid
        /\ \A t \in 1..Len(TownVotes) :
              Len(TownVotes[t][2]) = 0 =>
                 \A i \in 1..Len(df_res.rows) :
                    df_res.rows[i].town_id # TownVotes[t][1]

\* a table of three rows for town "5" next to a town "6" with no contest
C4_Witness ==
    /\ "df_res" \in built
    /\ Len(TownVotes) = 2
    /\ TownVotes[1][1] = "6"
    /\ Len(TownVotes[1][2]) = 0
    /\ Len(df_res.rows) = 3

\* the display name the lookup document holds for an identifier, "" for none
NameOfTown(tid) == IF tid \in DOMAIN TownIds THEN TownIds[tid] ELSE ""

NameOfOffice(oid) ==
    LET holders == {k \in 1..Len(OfficeList) :
                      /\ OfficeList[k].isdict
                      /\ \E j \in 1..Len(OfficeList[k].items) :
                            OfficeList[k].items[j][1] = oid}
    IN  IF holders = {} THEN ""
        ELSE LET k   == CHOOSE m \in holders : \A n \in holders : n <= m
                 its == OfficeList[k].items
                 j   == CHOOSE m \in 1..Len(its) :
                           /\ its[m][1] = oid
                           /\ \A n \in 1..Len(its) : its[n][1] = oid => n <= m
             IN  IF "NM" \in DOMAIN its[j][2] THEN its[j][2]["NM"] ELSE ""

NameOfCandidate(cid) ==
    IF cid \in DOMAIN CandidateIds /\ "NM" \in DOMAIN CandidateIds[cid]
    THEN CandidateIds[cid]["NM"] ELSE ""

NameOfPartyOf(cid) ==
    IF cid \notin DOMAIN CandidateIds THEN ""
    ELSE IF "P" \notin DOMAIN CandidateIds[cid] THEN ""
    ELSE IF CandidateIds[cid]["P"] \notin DOMAIN PartyIds THEN ""
    ELSE IF "NM" \notin DOMAIN PartyIds[CandidateIds[cid]["P"]] THEN ""
    ELSE PartyIds[CandidateIds[cid]["P"]]["NM"]

\* C5: no identifier missing from its mapping drops a row or fails; each
\* name of a row is the one its mapping holds, and "" when there is none:
\* in particular the party of a row is "" when its candidate is absent
\* from candidateIds or names no party.
C5_MissingIdentifierGivesEmptyName ==
    "df_res" \in built =>
        /\ Len(df_res.rows) = Len(TallyEntries)
        /\ \A i \in 1..Len(TallyEntries) :
              /\ df_res.rows[i].town_name = NameOfTown(TallyEntries[i].tid)
              /\ df_res.rows[i].office_name = NameOfOffice(TallyEntries[i].oid)
              /\ df_res.rows[i].candidate_name =
                    NameOfCandidate(TallyEntries[i].cid)
              /\ df_res.rows[i].party = NameOfPartyOf(TallyEntries[i].cid)

\* the count string of a tally, "" when the tally has none
CountString(vals) == IF "V" \in DOMAIN vals THEN vals["V"] ELSE <<>>

\* digits in groups of three separated by commas, the first group of one
\* to three digits
CommaGrouped(v) ==
    /\ Len(v) > 0
    /\ v[1] # ","
    /\ \A i \in 1..Len(v) :
          IF (Len(v) - i + 1) % 4 = 0 THEN v[i] = "," ELSE v[i] \in Digits

RECURSIVE PlaceValueSum(_, _)
\* the integer a comma-grouped string denotes: each digit times the power
\* of ten of its place
PlaceValueSum(v, i) ==
    IF i > Len(v) THEN 0
    ELSE (IF v[i] = "," THEN 0
          ELSE DigitVal(v[i]) *
               10 ^ Cardinality({j \in (i + 1)..Len(v) : v[j] # ","}))
         + PlaceValueSum(v, i + 1)

NotANumber(v) ==
    \/ Len(v) = 0
    \/ \E i \in 1..Len(v) : v[i] \notin Digits \cup {","}

\* C6: the vote count of a row is the integer its comma-grouped count
\* string denotes; a count that is no number, or is missing, gives a
\* missing value in that row and every row is kept.
C6_VotesAreTheGroupedInteger ==
    "df_res" \in built =>
        /\ Len(df_res.rows) = Len(TallyEntries)
        /\ \A i \in 1..Len(TallyEntries) :
              LET v == CountString(TallyEntries[i].vals)
              IN  /\ CommaGrouped(v) =>
                        df_res.rows[i].votes = Num(PlaceValueSum(v, 1))
                  /\ NotANumber(v) => df_res.rows[i].votes = NaN

\* "1,234,567" and "n/a" and a missing count in one table
C6_Witness ==
    /\ "df_res" \in built
    /\ \E i, j \in 1..Len(df_res.rows) :
          /\ CountString(TallyEntries[i].vals) =
                <<"1", ",", "2", "3", "4", ",", "5", "6", "7">>
          /\ df_res.rows[i].votes = Num(1234567)
          /\ "V" \notin DOMAIN TallyEntries[j].vals
          /\ df_res.rows[j].votes = NaN

\* C7: the turnout table has exactly one row for every town of
\* voterTurnout, whose precincts-reported value is the one townStatus
\* holds for the town, and "" for a town townStatus does not hold.
C7_OneTurnoutRowPerTown ==
    "df_turn" \in built =>
        /\ Len(df_turn.rows) = Len(VoterTurnout)
        /\ \A i \in 1..Len(VoterTurnout) :
              LET tid == VoterTurnout[i][1]
              IN  /\ Cardinality({k \in 1..Len(df_turn.rows) :
                                    df_turn.rows[k].town_id = tid}) = 1
                  /\ df_turn.rows[i].town_id = tid
                  /\ df_turn.rows[i].precincts_reported =
                        IF tid \in DOMAIN TownStatus
                           /\ "PR" \in DOMAIN TownStatus[tid]
                        THEN TownStatus[tid]["PR"] ELSE <<>>

\* a town with a status next to a town townStatus does not hold
C7_Witness ==
    /\ "df_turn" \in built
    /\ Len(df_turn.rows) = 2
    /\ VoterTurnout[1][1] = "7"
    /\ "7" \notin DOMAIN TownStatus
    /\ df_turn.rows[1].precincts_reported = <<>>
    /\ df_turn.rows[2].precincts_reported = <<"3", " ", "o", "f", " ", "5">>

\* the precincts-reported text in Spanish
PrecinctsEs(x) ==
    IF x = <<"3", " ", "o", "f", " ", "5">>
    THEN <<"3", " ", "d", "e", " ", "5">>
    ELSE x

\* C8: each Spanish table has as many rows as its English table, and row i
\* of the Spanish table is row i of the English table relabeled.
C8_LocalizationKeepsRows ==
    /\ "df_res_es" \in built =>
          /\ Len(df_res_es.rows) = Len(df_res.rows)
          /\ \A i \in 1..Len(df_res.rows) :
                /\ df_res_es.rows[i]["Ciudad"] = df_res.rows[i].town_name
                /\ df_res_es.rows[i]["Cargo"] = df_res.rows[i].office_name
                /\ df_res_es.rows[i]["Candidato"] = df_res.rows[i].candidate_name
                /\ df_res_es.rows[i]["Votos"] = df_res.rows[i].votes
                /\ df_res_es.rows[i]["Porcentaje"] = df_res.rows[i].percent
    /\ "df_turn_es" \in built =>
          /\ Len(df_turn_es.rows) = Len(df_turn.rows)
          /\ \A i \in 1..Len(df_turn.rows) :
                /\ df_turn_es.rows[i]["Ciudad"] = df_turn.rows[i].town_name
                /\ df_turn_es.rows[i]["Precintos reportados"] =
                      PrecinctsEs(df_turn.rows[i].precincts_reported)
                /\ df_turn_es.rows[i]["Habilitados"] = df_turn.rows[i].electors
                /\ df_turn_es.rows[i]["Votantes"] = df_turn.rows[i].votes_cast
                /\ df_turn_es.rows[i]["% Participación"] =
                      df_turn.rows[i].turnout_percent

\* both Spanish tables built from English tables of distinct rows
C8_Witness ==
    /\ built = FrameNames
    /\ Len(df_res_es.rows) = 4
    /\ df_res.rows[1].candidate_name # df_res.rows[4].candidate_name
    /\ Len(df_turn_es.rows) = 2
    /\ df_turn.rows[1].town_name # df_turn.rows[2].town_name

\* C9: Partido is the entry of the translation table for the English party
\* name when the table has one, and the English party name otherwise.
C9_PartyTranslatedOrUnchanged ==
    "df_res_es" \in built =>
        \A i \in 1..Len(df_res_es.rows) :
            /\ df_res.rows[i].party \in DOMAIN PARTY_ES =>
                  df_res_es.rows[i]["Partido"] = PARTY_ES[df_res.rows[i].party]
            /\ df_res.rows[i].party \notin DOMAIN PARTY_ES =>
                  df_res_es.rows[i]["Partido"] = df_res.rows[i].party
            /\ df_res.rows[i].party = "Democratic Party" =>
                  df_res_es.rows[i]["Partido"] = "Partido Demócrata"

\* a translated party, an untranslated party and an unresolved party
C9_Witness ==
    /\ "df_res_es" \in built
    /\ \E i, j, k \in 1..Len(df_res_es.rows) :
          /\ df_res.rows[i].party = "Democratic Party"
          /\ df_res_es.rows[i]["Partido"] = "Partido Demócrata"
          /\ df_res.rows[j].party = "Unaffiliated"
          /\ df_res_es.rows[j]["Partido"] = "Unaffiliated"
          /\ df_res.rows[k].party = ""
          /\ df_res_es.rows[k]["Partido"] = ""

====
